---- MODULE Spec2Model ----
(***************************************************************************)
(* Model of OptimizerLogic (src/logic/optimizer_logic.py): the step        *)
(* sequencer of the position optimizer, its queued self-signals, the       *)
(* line-scan handlers, the validation of fit results and the acquisition   *)
(* and release of the scanning device.                                     *)
(*                                                                         *)
(* Positions are integers (one unit = one grid point of the model); the     *)
(* scan sizes are even so that 0.5 * size is exact.  The scanning device    *)
(* and the fit service are external: every status, count line and fit      *)
(* result they can return is an input drawn with \E.                       *)
(***************************************************************************)
EXTENDS Integers, Sequences, FiniteSets, TLC

(***************************************************************************)
(* Bounds of the model.                                                    *)
(***************************************************************************)
\* start_refocus calls in one behaviour
MaxRuns == 1
\* stop_refocus requests from outside in one behaviour
MaxStops == 1
\* executions of finish_refocus followed after one start_refocus
MaxFinish == 2
\* start_refocus calls in one behaviour of a session with a healthy device
SessionRuns == 2
\* set_clock_frequency calls in one behaviour of such a session
MaxClockCalls == 1

(***************************************************************************)
(* Program constants and configuration.                                    *)
(***************************************************************************)
\* self._max_offset = 3.
max_offset == 3
\* refocus_XY_size (StatusVar 'xy_size'), in model units
refocus_XY_size == 2
\* optimizer_XY_res (StatusVar 'xy_resolution'): lines of an XY image
optimizer_XY_res == 2
\* optimizer_Z_res (StatusVar 'z_resolution'): points of a Z line
optimizer_Z_res == 2
\* get_position_range()[0..2] of the scanning device
x_range == <<0, 3>>
y_range == <<0, 3>>
z_range == <<0, 2>>

\* the configurations (status variables and device) the module is checked
\* with: fit_type, template_cursor, refocus_Z_size (StatusVar 'z_size'),
\* do_surface_subtraction, optimization_sequence and the number of axes of
\* the scanning device
Config(ft, cur, zs, sub, seq, axes) ==
    [fit_type |-> ft, template_cursor |-> cur, refocus_Z_size |-> zs,
     do_surface_subtraction |-> sub, optimization_sequence |-> seq,
     scanner_axes |-> axes]

Configs ==
    { Config("normal", <<0, 0, 0, 0>>, 4, FALSE, <<"XY", "Z">>, 3),
      Config("normal", <<0, 0, 0, 0>>, 2, TRUE, <<"Z", "XY", "Z">>, 4),
      Config("normal", <<0, 0, 0, 0>>, 2, FALSE, <<"XY", "XY">>, 3),
      Config("normal", <<0, 0, 0, 0>>, 2, FALSE, <<"XY", "bad">>, 4),
      Config("normal", <<0, 0, 0, 0>>, 2, FALSE, <<>>, 3),
      Config("all_template", <<1, 1, 1, 0>>, 2, FALSE, <<"XY", "Z">>, 3),
      Config("xy_template", <<1, 1, 1, 0>>, 4, TRUE, <<"XY", "Z">>, 4),
      Config("z_template", <<1, 1, 1, 0>>, 2, FALSE, <<"Z", "XY", "Z">>, 3) }

\* caller tags
CallerTags == {"unknown", "xy_template_image", "z_template_image"}
\* positions a caller requests: inside the range, and one outside
StartPositions == {<<0, 0, 1>>, <<3, 3, 2>>, <<4, -1, 3>>}
\* what the fit service may report
FitCentersXY == {-1, 1, 3, 4}
FitCentersZ == {-1, 1, 3, 4}
FitSigmas == {1}
\* the counts the device may return for a line that was scanned (one count
\* rate stands for the line)
Counts == {1, 2}
\* the frequencies a caller may set, in tenths (1007 is 100.7):
\* clock_frequency, and template_clock_frequency with <<>> for None
ClockFrequencies == {1000, 1007}
TemplateClockFrequencies == {<<>>, <<705>>}

VARIABLES
    \* configuration (status variables)
    fit_type, template_cursor, refocus_Z_size, do_surface_subtraction,
    optimization_sequence,
    \* run state of OptimizerLogic
    module_state, stopRequested, _caller_tag,
    _initial_pos_x, _initial_pos_y, _initial_pos_z,
    optim_pos_x, optim_pos_y, optim_pos_z,
    optim_sigma_x, optim_sigma_y, optim_sigma_z,
    _xy_scan_line_count, _optimization_step,
    \* centre (x0, y0, z0) of the XY image and z0 of the Z line built last
    xy_image_center, z_line_center,
    \* the grids of the XY image and of the Z line built last
    _X_values, _Y_values, _return_X_values, _zimage_Z_values,
    \* the stored templates
    xy_template_image, z_template_data,
    \* clock frequencies
    _clock_frequency, _template_clock_frequency,
    \* Qt event queue of the queued self-signals
    queue,
    \* scanning device: its axis count; set up and not yet closed
    scanner_axes, scanner_held, clock_up,
    \* the environment: its budget, whether the device may fail, and the
    \* window a grid is asked for on its own
    runs_left, stops_left, clock_calls_left, faults_allowed, grid_input,
    \* whether the behaviour ends after MaxFinish executions of finish_refocus
    finish_bounded,
    \* what the run was asked for (with the sequence configured when it was
    \* asked for) and what it did so far (since start_refocus)
    requested, configured_sequence, run_acquired, xy_scan_failed, z_scan_failed, in_step,
    stop_in_step,
    run_finished, close_calls, finished_events, steps_run,
    \* a device failure or a stop request happened since activation
    disturbed,
    \* what the device returned for the lines of the template this run
    \* acquires, and the template acquisition that finished last
    responses, captured,
    \* what the last handler did
    last

vars == <<fit_type, template_cursor, refocus_Z_size, do_surface_subtraction,
          optimization_sequence, module_state, stopRequested, _caller_tag,
          _initial_pos_x, _initial_pos_y, _initial_pos_z,
          optim_pos_x, optim_pos_y, optim_pos_z,
          optim_sigma_x, optim_sigma_y, optim_sigma_z,
          _xy_scan_line_count, _optimization_step,
          xy_image_center, z_line_center,
          _X_values, _Y_values, _return_X_values, _zimage_Z_values,
          xy_template_image, z_template_data,
          _clock_frequency, _template_clock_frequency,
          queue, scanner_axes, scanner_held, clock_up,
          runs_left, stops_left, clock_calls_left, faults_allowed, grid_input,
          finish_bounded, requested, configured_sequence, run_acquired, xy_scan_failed,
          z_scan_failed, in_step, stop_in_step, run_finished, close_calls,
          finished_events, steps_run, disturbed, responses, captured, last>>

config_vars == <<fit_type, template_cursor, refocus_Z_size,
                 do_surface_subtraction, scanner_axes, faults_allowed,
                 grid_input, finish_bounded>>

grid_vars == <<xy_image_center, z_line_center, _X_values, _Y_values,
               _return_X_values, _zimage_Z_values>>

template_vars == <<xy_template_image, z_template_data>>

clock_vars == <<_clock_frequency, _template_clock_frequency, clock_calls_left>>

(***************************************************************************)
(* Helpers.                                                                *)
(***************************************************************************)
Abs(n) == IF n < 0 THEN -n ELSE n

InRange(v, range) == range[1] <= v /\ v <= range[2]

xy_template_mode == fit_type \in {"xy_template", "all_template"}

z_template_mode == fit_type \in {"z_template", "all_template"}

\* a step of a run is under way: launched and not yet fitted
StepInProgress == module_state = "locked" /\ in_step # ""

\* the record of what a handler did; each handler overrides what it does
Quiet(op) == [op |-> op, scans |-> 0, scan_error |-> FALSE, closes |-> 0,
              finished |-> <<>>, started |-> FALSE, step |-> "",
              acquire |-> "none", clock_closes |-> 0,
              fit |-> "none", candidate |-> "none", exception |-> FALSE,
              z_center |-> <<>>, counts |-> <<>>, returned |-> "none",
              clock_args |-> <<>>, clock_changed |-> <<>>,
              fit_center |-> <<>>, sentinel |-> FALSE]

(***************************************************************************)
(* Pure parts of the handlers.                                             *)
(***************************************************************************)
\* check_optimization_sequence with the bug of keeping every sequence
check_optimization_sequence_keeps(seq) == seq

\* check_optimization_sequence: a sequence with a step other than 'XY' and
\* 'Z' is replaced by the default
check_optimization_sequence(seq) ==
    IF {seq[i] : i \in 1 .. Len(seq)} \ {"XY", "Z"} # {}
    THEN <<"XY", "Z">>
    ELSE seq

\* start_refocus, lines 224-229: the template cursor is subtracted from the
\* requested position before scanning
initial_from_request(pos) ==
    << IF xy_template_mode THEN pos[1] - template_cursor[1] ELSE pos[1],
       IF xy_template_mode THEN pos[2] - template_cursor[2] ELSE pos[2],
       IF z_template_mode THEN pos[3] - template_cursor[3] ELSE pos[3] >>

\* start_scanner with the bug of returning from the failed scanner setup
\* without closing the clock and unlocking
start_scanner_stays_locked(clock_status, scanner_status) ==
    IF clock_status < 0
    THEN [status |-> -1, module_state |-> "idle", clock_up |-> clock_up,
          scanner_held |-> scanner_held, acquire |-> "clock_failed",
          clock_closes |-> 0]
    ELSE IF scanner_status < 0
    THEN [status |-> -1, module_state |-> "locked", clock_up |-> TRUE,
          scanner_held |-> scanner_held, acquire |-> "scanner_failed",
          clock_closes |-> 0]
    ELSE [status |-> 0, module_state |-> "locked", clock_up |-> TRUE,
          scanner_held |-> TRUE, acquire |-> "ok", clock_closes |-> 0]

\* start_scanner: lock, set up the clock, set up the scanner; on a negative
\* status unlock again (after closing the clock when it was set up)
start_scanner(clock_status, scanner_status) ==
    IF clock_status < 0
    THEN [status |-> -1, module_state |-> "idle", clock_up |-> clock_up,
          scanner_held |-> scanner_held, acquire |-> "clock_failed",
          clock_closes |-> 0]
    ELSE IF scanner_status < 0
    THEN [status |-> -1, module_state |-> "idle", clock_up |-> FALSE,
          scanner_held |-> scanner_held, acquire |-> "scanner_failed",
          clock_closes |-> 1]
    ELSE [status |-> 0, module_state |-> "locked", clock_up |-> TRUE,
          scanner_held |-> TRUE, acquire |-> "ok", clock_closes |-> 0]

\* the list start_refocus emits with sigRefocusFinished when the scanner
\* could not be started (lines 250-252)
start_failure_event(tag, pos) == <<tag, <<pos[1], pos[2], pos[3], 0>> >>

\* kill_scanner: close_scanner, close_scanner_clock, unlock.  An exception of
\* a close call is caught and ends kill_scanner before the unlock; unlocking
\* a module that is not locked raises in the module state machine, or does
\* nothing (unlock_raises).
kill_scanner(close_raises, clock_raises, unlock_raises) ==
    IF close_raises
    THEN [module_state |-> module_state, scanner_held |-> FALSE,
          clock_up |-> clock_up, clock_closes |-> 0, exception |-> FALSE,
          raised |-> TRUE]
    ELSE IF clock_raises
    THEN [module_state |-> module_state, scanner_held |-> FALSE,
          clock_up |-> FALSE, clock_closes |-> 1, exception |-> FALSE,
          raised |-> TRUE]
    ELSE [module_state |-> "idle", scanner_held |-> FALSE,
          clock_up |-> FALSE, clock_closes |-> 1,
          exception |-> (module_state # "locked" /\ unlock_raises),
          raised |-> FALSE]

\* [x, y, z, 0][0:n_ch]
truncated(pos4, n_ch) == SubSeq(pos4, 1, n_ch)

\* finish_refocus: release the device, add the template cursor back to the
\* initial and the optimal position, emit sigRefocusFinished
finish_refocus(close_raises, clock_raises, unlock_raises) ==
    LET k == kill_scanner(close_raises, clock_raises, unlock_raises)
        cx == IF xy_template_mode THEN template_cursor[1] ELSE 0
        cy == IF xy_template_mode THEN template_cursor[2] ELSE 0
        cz == IF z_template_mode THEN template_cursor[3] ELSE 0
    IN  IF k.exception
        THEN [kill |-> k,
              initial |-> <<_initial_pos_x, _initial_pos_y, _initial_pos_z>>,
              optim |-> <<optim_pos_x, optim_pos_y, optim_pos_z>>,
              finished |-> <<>>]
        ELSE [kill |-> k,
              initial |-> <<_initial_pos_x + cx, _initial_pos_y + cy,
                            _initial_pos_z + cz>>,
              optim |-> <<optim_pos_x + cx, optim_pos_y + cy, optim_pos_z + cz>>,
              finished |-> <<_caller_tag,
                             truncated(<<optim_pos_x + cx, optim_pos_y + cy,
                                         optim_pos_z + cz, 0>>, scanner_axes)>>]

\* _set_optimized_xy_from_fit with the bug of leaving the estimate alone
\* when the candidate is too far (the else branch of lines 526-530 missing)
xy_from_fit_keeps_estimate(r, ix, iy, o) ==
    IF ~r.success
    THEN <<ix, iy, 0, 0>>
    ELSE IF Abs(ix - r.center_x) < max_offset /\ Abs(ix - r.center_x) < max_offset
    THEN IF InRange(r.center_x, x_range) /\ InRange(r.center_y, y_range)
         THEN <<r.center_x, r.center_y, r.sigma_x, r.sigma_y>>
         ELSE o
    ELSE o

\* _set_optimized_xy_from_fit, lines 510-530: the new (x, y, sigma_x, sigma_y)
\* from the fit result r, the initial position (ix, iy) and the present
\* estimate o = <<x, y, sigma_x, sigma_y>>
xy_from_fit(r, ix, iy, o) ==
    IF ~r.success
    THEN <<ix, iy, 0, 0>>
    ELSE IF Abs(ix - r.center_x) < max_offset /\ Abs(ix - r.center_x) < max_offset
    THEN IF InRange(r.center_x, x_range) /\ InRange(r.center_y, y_range)
         THEN <<r.center_x, r.center_y, r.sigma_x, r.sigma_y>>
         ELSE o
    ELSE <<ix, iy, 0, 0>>

\* do_z_optimization with the bug of leaving the estimate alone when the fit
\* failed (lines 650-651 missing)
z_from_fit_keeps_estimate(r, iz, o) ==
    IF ~r.success
    THEN o
    ELSE IF Abs(iz - r.center) < max_offset
    THEN IF InRange(r.center, z_range)
         THEN <<r.center, r.sigma>>
         ELSE IF r.center > iz
         THEN IF iz + (refocus_Z_size \div 2) <= z_range[2]
              THEN <<iz + (refocus_Z_size \div 2), 0>>
              ELSE <<z_range[2], 0>>
         ELSE IF iz + (refocus_Z_size \div 2) >= z_range[1]
              THEN <<iz + (refocus_Z_size \div 2), 0>>
              ELSE <<z_range[1], 0>>
    ELSE o

\* do_z_optimization, lines 648-691: the new (z, sigma_z) from the fit result
\* r, the initial position iz and the present estimate o = <<z, sigma_z>>
z_from_fit(r, iz, o) ==
    IF ~r.success
    THEN <<iz, 0>>
    ELSE IF Abs(iz - r.center) < max_offset
    THEN IF InRange(r.center, z_range)
         THEN <<r.center, r.sigma>>
         ELSE IF r.center > iz
         THEN IF iz + (refocus_Z_size \div 2) <= z_range[2]
              THEN <<iz + (refocus_Z_size \div 2), 0>>
              ELSE <<z_range[2], 0>>
         ELSE IF iz + (refocus_Z_size \div 2) >= z_range[1]
              THEN <<iz + (refocus_Z_size \div 2), 0>>
              ELSE <<z_range[1], 0>>
    ELSE o

\* the images with the bug of being built around the initial position
initial_position == <<_initial_pos_x, _initial_pos_y, _initial_pos_z>>

\* x0, y0, z0 of _initialize_xy_refocus_image, z0 of
\* _initialize_z_refocus_image and x0, y0 of _scan_z_line: the optimal
\* position as it is when they run
current_estimate == <<optim_pos_x, optim_pos_y, optim_pos_z>>

\* np.clip with the bug of clipping nothing
np_clip_nothing(v, range) == v

\* np.clip(v, range[0], range[1])
np_clip(v, range) ==
    IF v < range[1] THEN range[1] ELSE IF v > range[2] THEN range[2] ELSE v

\* the unit of the points of a grid of n points is 1 / Scale(n) of the unit
\* of the positions, which keeps the points of np.linspace integers
Scale(n) == IF n > 1 THEN n - 1 ELSE 1

\* np.linspace(a, b, num=n), in units of 1 / Scale(n): a + i * (b - a) / (n - 1)
\* for i = 0 .. n - 1, and [a] for n = 1
linspace(a, b, n) == [i \in 1 .. n |-> a * Scale(n) + (i - 1) * (b - a)]

\* the largest element of a sequence of numbers that holds a 0
SeqMax(s) ==
    LET elems == {s[i] : i \in 1 .. Len(s)} \cup {0}
    IN  CHOOSE m \in elems : \A e \in elems : e <= m

\* np.zeros(1), the default of the stored templates
zeros_1 == [X |-> <<>>, Y |-> <<>>, Z |-> 0, counts |-> <<0>>]

\* np.max(xy_template_image): over the coordinates and the counts
xy_template_max(tpl) ==
    SeqMax(tpl.X \o tpl.Y \o <<tpl.Z>> \o tpl.counts)

\* _initialize_xy_refocus_image, lines 268-294: the window around
\* (x0, y0, z0) of the given size, clipped to the ranges, and its grid of
\* res points on each axis; image is the zeroed image with its coordinates
_initialize_xy_refocus_image(x0, y0, z0, size, res, xr, yr) ==
    LET xmin == np_clip(x0 - (size \div 2), xr)
        xmax == np_clip(x0 + (size \div 2), xr)
        ymin == np_clip(y0 - (size \div 2), yr)
        ymax == np_clip(y0 + (size \div 2), yr)
    IN  [X |-> linspace(xmin, xmax, res),
         Y |-> linspace(ymin, ymax, res),
         return_X |-> linspace(xmax, xmin, res),
         image |-> [X |-> linspace(xmin, xmax, res),
                    Y |-> linspace(ymin, ymax, res),
                    Z |-> z0,
                    counts |-> [i \in 1 .. res |-> 0]]]

\* _initialize_xy_refocus_image with the bug of keeping a stored template
\* that holds something above 0 while a template is acquired
xy_template_keeps_stored(tpl, tag, image) ==
    IF xy_template_max(tpl) = 0 THEN image ELSE tpl

\* lines 296-304: the stored template is replaced by the zeroed image when
\* a template is being acquired or the stored one holds nothing above 0
xy_template_after_init(tpl, tag, image) ==
    IF tag = "xy_template_image" \/ xy_template_max(tpl) = 0
    THEN image
    ELSE tpl

\* _initialize_z_refocus_image, lines 310-323: the line around z0, and the
\* Z values of the template relative to z0
_initialize_z_refocus_image(z0, size, res, zr) ==
    LET zmin == np_clip(z0 - (size \div 2), zr)
        zmax == np_clip(z0 + (size \div 2), zr)
    IN  [Z |-> linspace(zmin, zmax, res),
         template |-> [Z_values |-> linspace(zmin - z0, zmax - z0, res),
                       data |-> 0]]

\* lines 325-329 with the bug of replacing the stored template always
z_template_replaced(tpl, tag, template) == template

\* lines 325-329
z_template_after_init(tpl, tag, template) ==
    IF tag = "z_template_image" \/ tpl.data = 0
    THEN template
    ELSE tpl

\* results of the 2D fit: the fit service may report anything; the template
\* fit (xy_template_fit) always reports success
XYFitResults ==
    {r \in [success : BOOLEAN, center_x : FitCentersXY, center_y : FitCentersXY,
            sigma_x : FitSigmas, sigma_y : FitSigmas] :
        xy_template_mode => r.success}

\* results of the 1D fit; the template fit (z_template_fit) reports success
\* and sigma 0
ZFitResults ==
    IF z_template_mode
    THEN [success : {TRUE}, center : FitCentersZ, sigma : {0}]
    ELSE [success : BOOLEAN, center : FitCentersZ, sigma : FitSigmas]

\* the case of an XY fit result, in the words of the validation rules: the
\* fit failed, the candidate is too far from the initial position (on x, or
\* on y only), it is outside the physical range, or it is acceptable
xy_candidate(r, ix, iy) ==
    IF ~r.success THEN "failed"
    ELSE IF Abs(r.center_x - ix) >= max_offset
    THEN IF r.center_x > ix THEN "too_far_x_above" ELSE "too_far_x_below"
    ELSE IF Abs(r.center_y - iy) >= max_offset THEN "too_far_y"
    ELSE IF ~(InRange(r.center_x, x_range) /\ InRange(r.center_y, y_range))
    THEN "out_of_range"
    ELSE "acceptable"

\* the case of a Z fit result
z_candidate(r, iz) ==
    IF ~r.success THEN "failed"
    ELSE IF Abs(r.center - iz) >= max_offset THEN "too_far"
    ELSE IF ~InRange(r.center, z_range)
    THEN IF r.center > iz THEN "out_of_range_above" ELSE "out_of_range_below"
    ELSE "acceptable"

\* a stop_refocus from another thread while a handler runs: its signal is
\* queued before the signals the handler emits at its end
RaceChoices == IF stops_left > 0 THEN BOOLEAN ELSE {FALSE}

RaceSignal(race) == IF race THEN <<"ScanNextXyLine">> ELSE <<>>

(***************************************************************************)
(* The state after __init__ and on_activate.                               *)
(***************************************************************************)
InitProgram ==
    /\ \E c \in Configs :
          /\ fit_type = c.fit_type
          /\ template_cursor = c.template_cursor
          /\ refocus_Z_size = c.refocus_Z_size
          /\ do_surface_subtraction = c.do_surface_subtraction
          /\ optimization_sequence = c.optimization_sequence
          /\ scanner_axes = c.scanner_axes
    /\ module_state = "idle"
    /\ stopRequested = FALSE
    /\ _caller_tag = ""
    /\ _initial_pos_x = 0 /\ _initial_pos_y = 0 /\ _initial_pos_z = 0
    /\ optim_pos_x = 0 /\ optim_pos_y = 0 /\ optim_pos_z = 0
    /\ optim_sigma_x = 0 /\ optim_sigma_y = 0 /\ optim_sigma_z = 0
    /\ _xy_scan_line_count = 0
    /\ _optimization_step = 0
    \* _initialize_xy_refocus_image() and _initialize_z_refocus_image() at the
    \* end of on_activate, with the default templates np.zeros(1)
    /\ xy_image_center = <<0, 0, 0>>
    /\ z_line_center = 0
    /\ LET g == _initialize_xy_refocus_image(0, 0, 0, refocus_XY_size,
                                               optimizer_XY_res, x_range, y_range)
       IN  /\ _X_values = g.X
           /\ _Y_values = g.Y
           /\ _return_X_values = g.return_X
           /\ xy_template_image = xy_template_after_init(zeros_1, "", g.image)
    /\ LET g == _initialize_z_refocus_image(0, refocus_Z_size, optimizer_Z_res,
                                              z_range)
       IN  /\ _zimage_Z_values = g.Z
           /\ z_template_data =
                 z_template_after_init([Z_values |-> <<0>>, data |-> 0], "",
                                       g.template)
    /\ _clock_frequency = 50
    /\ _template_clock_frequency = 50
    /\ queue = <<>>
    /\ scanner_held = FALSE
    /\ clock_up = FALSE
    /\ requested = <<>>
    /\ configured_sequence = <<>>
    /\ steps_run = <<>>
    /\ disturbed = FALSE
    /\ responses = <<>>
    /\ captured = <<>>
    /\ run_acquired = FALSE
    /\ xy_scan_failed = FALSE
    /\ z_scan_failed = FALSE
    /\ in_step = ""
    /\ stop_in_step = FALSE
    /\ run_finished = FALSE
    /\ close_calls = 0
    /\ finished_events = 0
    /\ last = Quiet("on_activate")

\* the module in an environment where the device may fail and a caller may
\* request a stop
Init ==
    /\ InitProgram
    /\ runs_left = MaxRuns
    /\ stops_left = MaxStops
    /\ clock_calls_left = 0
    /\ faults_allowed = TRUE
    /\ grid_input = <<>>
    /\ finish_bounded = TRUE

(***************************************************************************)
(* start_refocus(initial_pos, caller_tag), called while the module is      *)
(* idle (lock() of the module state is only possible then).                *)
(***************************************************************************)
start_refocus(pos, tag, clock_status, scanner_status) ==
    LET ini == initial_from_request(pos)
        s == start_scanner(clock_status, scanner_status)
    IN  /\ module_state = "idle"
        /\ runs_left > 0
        /\ s.status < 0 => faults_allowed
        /\ runs_left' = runs_left - 1
        /\ _initial_pos_x' = ini[1]
        /\ _initial_pos_y' = ini[2]
        /\ _initial_pos_z' = ini[3]
        /\ _caller_tag' = tag
        /\ optim_pos_x' = ini[1]
        /\ optim_pos_y' = ini[2]
        /\ optim_pos_z' = ini[3]
        /\ optim_sigma_x' = 0 /\ optim_sigma_y' = 0 /\ optim_sigma_z' = 0
        /\ _xy_scan_line_count' = 0
        /\ _optimization_step' = 0
        /\ optimization_sequence' = check_optimization_sequence(optimization_sequence)
        /\ module_state' = s.module_state
        /\ clock_up' = s.clock_up
        /\ scanner_held' = s.scanner_held
        /\ queue' = IF s.status < 0 THEN queue
                    ELSE Append(queue, "DoNextOptimizationStep")
        /\ requested' = pos
        /\ configured_sequence' = optimization_sequence
        /\ run_acquired' = (s.status = 0)
        /\ xy_scan_failed' = FALSE
        /\ z_scan_failed' = FALSE
        /\ in_step' = ""
        /\ stop_in_step' = FALSE
        /\ run_finished' = FALSE
        /\ close_calls' = 0
        /\ finished_events' = IF s.status < 0 THEN 1 ELSE 0
        /\ steps_run' = <<>>
        /\ responses' = <<>>
        /\ disturbed' = (disturbed \/ s.status < 0)
        /\ last' = [Quiet("start_refocus") EXCEPT
                      !.acquire = s.acquire,
                      !.clock_closes = s.clock_closes,
                      !.started = (s.status = 0),
                      !.finished = IF s.status < 0
                                   THEN start_failure_event(tag, ini)
                                   ELSE <<>>]
        /\ UNCHANGED <<config_vars, stopRequested, grid_vars, template_vars,
                       clock_vars, stops_left, captured>>

(***************************************************************************)
(* stop_refocus(), called from outside between two handlers.               *)
(***************************************************************************)
stop_refocus ==
    /\ stops_left > 0
    /\ stops_left' = stops_left - 1
    /\ stopRequested' = TRUE
    /\ queue' = Append(queue, "ScanNextXyLine")
    /\ stop_in_step' = (stop_in_step \/ StepInProgress)
    /\ disturbed' = TRUE
    /\ last' = Quiet("stop_refocus")
    /\ UNCHANGED <<config_vars, grid_vars, template_vars, clock_vars, steps_run,
                   responses, captured,
                   optimization_sequence, module_state, _caller_tag,
                   _initial_pos_x, _initial_pos_y, _initial_pos_z,
                   optim_pos_x, optim_pos_y, optim_pos_z,
                   optim_sigma_x, optim_sigma_y, optim_sigma_z,
                   _xy_scan_line_count, _optimization_step,
                   scanner_held, clock_up,
                   runs_left, requested, configured_sequence, run_acquired, xy_scan_failed,
                   z_scan_failed, in_step, run_finished, close_calls,
                   finished_events>>

(***************************************************************************)
(* The part of a handler that runs finish_refocus (called directly: the    *)
(* stop branch of _refocus_xy_line and, through the direct connection of    *)
(* _sigFinishedAllOptimizationSteps, _do_next_optimization_step).           *)
(***************************************************************************)
\* the count after one more execution; where the behaviour is not bounded
\* the count stops at MaxFinish
Counted(n) == IF finish_bounded \/ n < MaxFinish THEN n + 1 ELSE n

Finishing(op, f) ==
    /\ finish_bounded => close_calls < MaxFinish
    /\ f.kill.raised => faults_allowed
    /\ disturbed' = (disturbed \/ f.kill.raised)
    /\ captured' = IF _caller_tag \in {"xy_template_image", "z_template_image"}
                       /\ ~disturbed /\ ~f.kill.raised
                    THEN [tag |-> _caller_tag, requested |-> requested,
                          responses |-> responses,
                          xy_template_image |-> xy_template_image,
                          z_template_data |-> z_template_data]
                    ELSE captured
    /\ responses' = responses
    /\ module_state' = f.kill.module_state
    /\ scanner_held' = f.kill.scanner_held
    /\ clock_up' = f.kill.clock_up
    /\ _initial_pos_x' = f.initial[1]
    /\ _initial_pos_y' = f.initial[2]
    /\ _initial_pos_z' = f.initial[3]
    /\ optim_pos_x' = f.optim[1]
    /\ optim_pos_y' = f.optim[2]
    /\ optim_pos_z' = f.optim[3]
    /\ run_finished' = TRUE
    /\ in_step' = ""
    /\ close_calls' = Counted(close_calls)
    /\ finished_events' = IF f.finished = <<>> THEN finished_events
                          ELSE Counted(finished_events)
    /\ last' = [Quiet(op) EXCEPT
                  !.closes = 1,
                  !.clock_closes = f.kill.clock_closes,
                  !.exception = f.kill.exception,
                  !.finished = f.finished]

(***************************************************************************)
(* _refocus_xy_line, the handler of _sigScanNextXyLine.                    *)
(***************************************************************************)
\* what the device may answer to the scan_line calls of one XY line
XYOutcomes == {"ok", "fail_move", "fail_forward", "fail_return"}

\* the scan_line calls of one XY line with the bug of moving to the start
\* before every line
xy_line_scans_moves_always(outcome, line_count) ==
    IF outcome = "fail_move" THEN 1
    ELSE IF outcome = "fail_forward" THEN 2
    ELSE 3

\* the scan_line calls of one XY line: the move to the start (only before
\* line 0), the forward line, the return line; the first error ends them
xy_line_scans(outcome, line_count) ==
    LET move == IF line_count = 0 THEN 1 ELSE 0
    IN  IF outcome = "fail_move" THEN 1
        ELSE IF outcome = "fail_forward" THEN move + 1
        ELSE move + 2

_refocus_xy_line(outcome, counts, close_raises, clock_raises, unlock_raises, race) ==
    /\ queue # <<>>
    /\ Head(queue) = "ScanNextXyLine"
    /\ IF stopRequested
       THEN \* stop scanning if instructed
            /\ outcome = "ok" /\ ~race /\ counts = 1
            /\ stopRequested' = FALSE
            /\ Finishing("_refocus_xy_line",
                         finish_refocus(close_raises, clock_raises, unlock_raises))
            /\ queue' = Tail(queue)
            /\ UNCHANGED <<_xy_scan_line_count, xy_scan_failed, stops_left,
                           stop_in_step, xy_template_image>>
       ELSE /\ ~close_raises /\ ~clock_raises /\ ~unlock_raises
            /\ captured' = captured
            /\ responses' =
                 IF _caller_tag = "xy_template_image" /\ outcome = "ok"
                    /\ _xy_scan_line_count < optimizer_XY_res
                 THEN Append(responses, counts)
                 ELSE responses
            /\ outcome = "fail_move" => _xy_scan_line_count = 0
            /\ outcome # "ok" => (faults_allowed /\ counts = 1)
            /\ stops_left' = IF race THEN stops_left - 1 ELSE stops_left
            /\ stop_in_step' = (stop_in_step \/ (race /\ StepInProgress))
            /\ disturbed' = (disturbed \/ race \/ outcome # "ok")
            /\ IF _xy_scan_line_count >= optimizer_XY_res
               THEN \* xy_refocus_image[_xy_scan_line_count] is out of bounds
                    /\ outcome = "ok" /\ counts = 1
                    /\ stopRequested' = (stopRequested \/ race)
                    /\ queue' = Tail(queue) \o RaceSignal(race)
                    /\ last' = [Quiet("_refocus_xy_line") EXCEPT !.exception = TRUE]
                    /\ UNCHANGED <<_xy_scan_line_count, xy_scan_failed,
                                   xy_template_image>>
               ELSE IF outcome # "ok"
               THEN \* stop_refocus() and one more _sigScanNextXyLine
                    /\ stopRequested' = TRUE
                    /\ queue' = Tail(queue) \o RaceSignal(race)
                                  \o <<"ScanNextXyLine", "ScanNextXyLine">>
                    /\ xy_scan_failed' = TRUE
                    /\ last' = [Quiet("_refocus_xy_line") EXCEPT
                                  !.scans = xy_line_scans(outcome, _xy_scan_line_count),
                                  !.scan_error = TRUE,
                                  !.sentinel = TRUE]
                    /\ UNCHANGED <<_xy_scan_line_count, xy_template_image>>
               ELSE /\ stopRequested' = (stopRequested \/ race)
                    \* the counts of the forward line go into the template
                    \* while a template is acquired
                    /\ xy_template_image' =
                         IF _caller_tag = "xy_template_image"
                         THEN [xy_template_image EXCEPT
                                 !.counts[_xy_scan_line_count + 1] = counts]
                         ELSE xy_template_image
                    /\ _xy_scan_line_count' = _xy_scan_line_count + 1
                    /\ queue' = Tail(queue) \o RaceSignal(race)
                                  \o IF _xy_scan_line_count + 1 < Len(_Y_values)
                                     THEN <<"ScanNextXyLine">>
                                     ELSE <<"CompletedXyOptimizerScan">>
                    /\ last' = [Quiet("_refocus_xy_line") EXCEPT
                                  !.scans = xy_line_scans(outcome, _xy_scan_line_count),
                                  !.counts = <<counts>>]
                    /\ UNCHANGED xy_scan_failed
            /\ UNCHANGED <<module_state, scanner_held, clock_up,
                           _initial_pos_x, _initial_pos_y, _initial_pos_z,
                           optim_pos_x, optim_pos_y, optim_pos_z, in_step,
                           run_finished, close_calls, finished_events>>
    /\ UNCHANGED <<config_vars, grid_vars, clock_vars, steps_run,
                   z_template_data, optimization_sequence, _caller_tag,
                   optim_sigma_x, optim_sigma_y, optim_sigma_z,
                   _optimization_step,
                   runs_left, requested, configured_sequence, run_acquired, z_scan_failed>>

(***************************************************************************)
(* _set_optimized_xy_from_fit, the handler of _sigCompletedXyOptimizerScan.*)
(***************************************************************************)
_set_optimized_xy_from_fit(r, race) ==
    LET capture == _caller_tag = "xy_template_image"
        new == IF capture
               THEN <<_initial_pos_x, _initial_pos_y, 0, 0>>
               ELSE xy_from_fit(r, _initial_pos_x, _initial_pos_y,
                                <<optim_pos_x, optim_pos_y,
                                  optim_sigma_x, optim_sigma_y>>)
    IN  /\ queue # <<>>
        /\ Head(queue) = "CompletedXyOptimizerScan"
        /\ optim_pos_x' = new[1]
        /\ optim_pos_y' = new[2]
        /\ optim_sigma_x' = new[3]
        /\ optim_sigma_y' = new[4]
        /\ in_step' = ""
        /\ stops_left' = IF race THEN stops_left - 1 ELSE stops_left
        /\ stop_in_step' = (stop_in_step \/ (race /\ StepInProgress))
        /\ stopRequested' = (stopRequested \/ race)
        /\ disturbed' = (disturbed \/ race)
        /\ queue' = Tail(queue) \o RaceSignal(race) \o <<"DoNextOptimizationStep">>
        /\ last' = [Quiet("_set_optimized_xy_from_fit") EXCEPT
                      !.fit = IF capture THEN "none"
                              ELSE IF xy_template_mode THEN "template"
                              ELSE "service",
                      !.candidate = IF capture THEN "none"
                                    ELSE xy_candidate(r, _initial_pos_x,
                                                      _initial_pos_y)]
        /\ UNCHANGED <<config_vars, grid_vars, template_vars, clock_vars,
                       steps_run, responses, captured,
                       optimization_sequence, module_state,
                       _caller_tag, _initial_pos_x, _initial_pos_y,
                       _initial_pos_z, optim_pos_z, optim_sigma_z,
                       _xy_scan_line_count, _optimization_step,
                       scanner_held, clock_up,
                       runs_left, requested, configured_sequence, run_acquired, xy_scan_failed,
                       z_scan_failed, run_finished, close_calls,
                       finished_events>>

(***************************************************************************)
(* do_z_optimization, the handler of _sigScanZLine, with _scan_z_line.     *)
(***************************************************************************)
\* what the device may answer to the scan_line calls of _scan_z_line: no
\* error, or the error sentinel for the move to the start, for the line, for
\* the move to the start of the background line, in line_bg_counts[0] of the
\* background line ("fail_bg"), or in the background line after
\* line_bg_counts[0] only ("fail_bg_rest")
ZOutcomes ==
    {"ok", "fail_move", "fail_line"}
    \cup IF do_surface_subtraction
         THEN {"fail_move_bg", "fail_bg", "fail_bg_rest"}
         ELSE {}

\* np.any(line_bg_counts[0] == -1): the sentinel is looked for in
\* line_bg_counts[0] only
bg_line_error(outcome) == outcome = "fail_bg"

\* _scan_z_line ends with stop_refocus() and without the data of the line
scan_z_line_stops(outcome) ==
    \/ outcome \in {"fail_move", "fail_line", "fail_move_bg"}
    \/ bg_line_error(outcome)

\* the scan_line calls of _scan_z_line: the move to the start and the line,
\* and both again for the background line with surface subtraction
z_line_scans(outcome) ==
    IF outcome = "fail_move" THEN 1
    ELSE IF outcome = "fail_line" THEN 2
    ELSE IF outcome = "fail_move_bg" THEN 3
    ELSE IF outcome = "fail_bg" THEN 4
    ELSE IF do_surface_subtraction THEN 4
    ELSE 2

\* _scan_z_line, lines 761-802: what the template data are after it while a
\* template is acquired; the line is stored before the background line is
\* scanned, and the difference after it
z_template_after_scan(tpl, tag, outcome, counts, bg_counts) ==
    IF tag # "z_template_image" \/ outcome \in {"fail_move", "fail_line"}
    THEN tpl
    ELSE IF outcome \in {"ok", "fail_bg_rest"} /\ do_surface_subtraction
    THEN [tpl EXCEPT !.data = counts - bg_counts]
    ELSE [tpl EXCEPT !.data = counts]

do_z_optimization(outcome, counts, bg_counts, r, race) ==
    LET capture == _caller_tag = "z_template_image"
        new == IF capture
               THEN <<_initial_pos_z, 0>>
               ELSE z_from_fit(r, _initial_pos_z, <<optim_pos_z, optim_sigma_z>>)
    IN  /\ queue # <<>>
        /\ Head(queue) = "ScanZLine"
        /\ outcome # "ok" => faults_allowed
        /\ outcome \in {"fail_move", "fail_line"} => counts = 1
        /\ (scan_z_line_stops(outcome) \/ ~do_surface_subtraction)
              => bg_counts = 1
        \* _scan_z_line: an error ends it with stop_refocus(); do_z_optimization
        \* goes on after it
        /\ z_scan_failed' = (z_scan_failed \/ scan_z_line_stops(outcome))
        /\ stopRequested' = (stopRequested \/ race
                             \/ scan_z_line_stops(outcome))
        /\ stops_left' = IF race THEN stops_left - 1 ELSE stops_left
        /\ stop_in_step' = (stop_in_step \/ (race /\ StepInProgress))
        /\ disturbed' = (disturbed \/ race \/ outcome # "ok")
        /\ z_template_data' = z_template_after_scan(z_template_data, _caller_tag,
                                                    outcome, counts, bg_counts)
        /\ responses' =
             IF _caller_tag # "z_template_image"
                \/ outcome \in {"fail_move", "fail_line"}
             THEN responses
             ELSE IF ~scan_z_line_stops(outcome) /\ do_surface_subtraction
             THEN responses \o <<counts, bg_counts>>
             ELSE Append(responses, counts)
        /\ optim_pos_z' = new[1]
        /\ optim_sigma_z' = new[2]
        /\ in_step' = ""
        /\ queue' = Tail(queue) \o RaceSignal(race)
                      \o (IF scan_z_line_stops(outcome)
                          THEN <<"ScanNextXyLine">> ELSE <<>>)
                      \o <<"DoNextOptimizationStep">>
        /\ last' = [Quiet("do_z_optimization") EXCEPT
                      !.scans = z_line_scans(outcome),
                      !.scan_error = scan_z_line_stops(outcome),
                      !.sentinel = outcome # "ok",
                      !.z_center = <<current_estimate[1], current_estimate[2]>>,
                      !.counts = IF outcome \in {"fail_move", "fail_line"}
                                 THEN <<>>
                                 ELSE IF ~scan_z_line_stops(outcome)
                                         /\ do_surface_subtraction
                                 THEN <<counts, bg_counts>>
                                 ELSE <<counts>>,
                      !.fit = IF capture THEN "none"
                              ELSE IF z_template_mode THEN "template"
                              ELSE "service",
                      !.candidate = IF capture THEN "none"
                                    ELSE z_candidate(r, _initial_pos_z),
                      !.fit_center = IF capture THEN <<>> ELSE <<r.center>>]
        /\ UNCHANGED <<config_vars, grid_vars, clock_vars, steps_run, captured,
                       xy_template_image, optimization_sequence, module_state,
                       _caller_tag, _initial_pos_x, _initial_pos_y,
                       _initial_pos_z, optim_pos_x, optim_pos_y,
                       optim_sigma_x, optim_sigma_y,
                       _xy_scan_line_count, _optimization_step,
                       scanner_held, clock_up,
                       runs_left, requested, configured_sequence, run_acquired, xy_scan_failed,
                       run_finished, close_calls, finished_events>>

(***************************************************************************)
(* _do_next_optimization_step, the handler of _sigDoNextOptimizationStep.  *)
(***************************************************************************)
\* _do_next_optimization_step with the bug of following the configured
\* sequence while a template is acquired (lines 846-864 missing)
next_step_follows_sequence ==
    IF _optimization_step = Len(optimization_sequence)
    THEN "finish"
    ELSE optimization_sequence[_optimization_step + 1]

\* the step to launch: "XY", "Z", or "finish" when all steps are done
next_step ==
    IF _caller_tag = "xy_template_image"
    THEN IF _optimization_step >= 1 THEN "finish" ELSE "XY"
    ELSE IF _caller_tag = "z_template_image"
    THEN IF _optimization_step >= 1 THEN "finish" ELSE "Z"
    ELSE IF _optimization_step = Len(optimization_sequence)
    THEN "finish"
    ELSE optimization_sequence[_optimization_step + 1]

_do_next_optimization_step(close_raises, clock_raises, unlock_raises, race) ==
    /\ queue # <<>>
    /\ Head(queue) = "DoNextOptimizationStep"
    /\ IF next_step = "finish"
       THEN /\ ~race
            /\ Finishing("_do_next_optimization_step",
                         finish_refocus(close_raises, clock_raises, unlock_raises))
            /\ queue' = Tail(queue)
            /\ UNCHANGED <<_optimization_step, _xy_scan_line_count,
                           grid_vars, template_vars, steps_run, stopRequested,
                           stops_left, stop_in_step>>
       ELSE /\ ~close_raises /\ ~clock_raises /\ ~unlock_raises
            /\ _optimization_step' = _optimization_step + 1
            /\ in_step' = next_step
            /\ steps_run' = Append(steps_run, next_step)
            \* _initialize_xy_refocus_image / _initialize_z_refocus_image
            /\ IF next_step = "XY"
               THEN LET c == current_estimate
                        g == _initialize_xy_refocus_image(
                                 c[1], c[2], c[3],
                                 refocus_XY_size, optimizer_XY_res,
                                 x_range, y_range)
                    IN  /\ _xy_scan_line_count' = 0
                        /\ xy_image_center' = c
                        /\ _X_values' = g.X
                        /\ _Y_values' = g.Y
                        /\ _return_X_values' = g.return_X
                        /\ xy_template_image' =
                             xy_template_after_init(xy_template_image,
                                                    _caller_tag, g.image)
                        /\ UNCHANGED <<z_line_center, _zimage_Z_values,
                                       z_template_data>>
               ELSE IF next_step = "Z"
               THEN LET c == current_estimate
                        g == _initialize_z_refocus_image(
                                 c[3], refocus_Z_size, optimizer_Z_res,
                                 z_range)
                    IN  /\ _xy_scan_line_count' = 0
                        /\ z_line_center' = c[3]
                        /\ _zimage_Z_values' = g.Z
                        /\ z_template_data' =
                             z_template_after_init(z_template_data, _caller_tag,
                                                   g.template)
                        /\ UNCHANGED <<xy_image_center, _X_values, _Y_values,
                                       _return_X_values, xy_template_image>>
               ELSE \* a step that is neither 'XY' nor 'Z' launches nothing
                    UNCHANGED <<grid_vars, template_vars, _xy_scan_line_count>>
            /\ stops_left' = IF race THEN stops_left - 1 ELSE stops_left
            /\ stop_in_step' = (stop_in_step \/ (race /\ StepInProgress))
            /\ stopRequested' = (stopRequested \/ race)
            /\ disturbed' = (disturbed \/ race)
            /\ queue' = Tail(queue) \o RaceSignal(race)
                          \o IF next_step = "XY" THEN <<"ScanNextXyLine">>
                             ELSE IF next_step = "Z" THEN <<"ScanZLine">>
                             ELSE <<>>
            /\ last' = [Quiet("_do_next_optimization_step") EXCEPT
                          !.step = next_step]
            /\ UNCHANGED <<responses, captured>>
            /\ UNCHANGED <<module_state, scanner_held, clock_up,
                           _initial_pos_x, _initial_pos_y, _initial_pos_z,
                           optim_pos_x, optim_pos_y, optim_pos_z,
                           run_finished, close_calls, finished_events>>
    /\ UNCHANGED <<config_vars, clock_vars, optimization_sequence, _caller_tag,
                   optim_sigma_x, optim_sigma_y, optim_sigma_z,
                   runs_left, requested, configured_sequence, run_acquired, xy_scan_failed,
                   z_scan_failed>>

\* int(v) of a number v given in tenths: the digits after the point are cut
int(v) == IF v >= 0 THEN v \div 10 ELSE -((-v) \div 10)

\* set_clock_frequency with the bug of not testing the module state
set_clock_frequency_while_locked(clock_frequency, template_clock_frequency) ==
    [returned |-> 0,
     clock |-> int(clock_frequency),
     template |-> IF template_clock_frequency # <<>>
                  THEN int(template_clock_frequency[1])
                  ELSE _template_clock_frequency,
     emitted |-> <<int(clock_frequency)>>]

\* set_clock_frequency: what it returns, the two frequencies after it and
\* what it emits with sigClockFrequencyChanged
set_clock_frequency_result(clock_frequency, template_clock_frequency) ==
    IF module_state = "locked"
    THEN [returned |-> -1,
          clock |-> _clock_frequency,
          template |-> _template_clock_frequency,
          emitted |-> <<>>]
    ELSE [returned |-> 0,
          clock |-> int(clock_frequency),
          template |-> IF template_clock_frequency # <<>>
                       THEN int(template_clock_frequency[1])
                       ELSE _template_clock_frequency,
          emitted |-> <<int(clock_frequency)>>]

\* set_clock_frequency(clock_frequency, template_clock_frequency), called
\* from outside between two handlers
set_clock_frequency(clock_frequency, template_clock_frequency) ==
    LET r == set_clock_frequency_result(clock_frequency,
                                        template_clock_frequency)
    IN  /\ clock_calls_left > 0
        /\ clock_calls_left' = clock_calls_left - 1
        /\ _clock_frequency' = r.clock
        /\ _template_clock_frequency' = r.template
        /\ last' = [Quiet("set_clock_frequency") EXCEPT
                      !.returned = r.returned,
                      !.clock_args = <<clock_frequency,
                                       template_clock_frequency>>,
                      !.clock_changed = r.emitted]
        /\ UNCHANGED <<config_vars, grid_vars, template_vars, steps_run, disturbed,
                       responses, captured,
                       optimization_sequence, module_state, stopRequested,
                       _caller_tag, _initial_pos_x, _initial_pos_y, _initial_pos_z,
                       optim_pos_x, optim_pos_y, optim_pos_z,
                       optim_sigma_x, optim_sigma_y, optim_sigma_z,
                       _xy_scan_line_count, _optimization_step, queue,
                       scanner_held, clock_up, runs_left, stops_left,
                       requested, configured_sequence, run_acquired, xy_scan_failed, z_scan_failed,
                       in_step, stop_in_step, run_finished, close_calls,
                       finished_events>>

\* _initialize_xy_refocus_image and _initialize_z_refocus_image for the
\* window grid_input = [x0, y0, z0, size, res, range]
InitializeXyRefocusImage ==
    /\ grid_input # <<>>
    /\ LET g == _initialize_xy_refocus_image(
                    grid_input.x0, grid_input.y0, grid_input.z0,
                    grid_input.size, grid_input.res,
                    grid_input.range, grid_input.range)
       IN  /\ xy_image_center' = <<grid_input.x0, grid_input.y0, grid_input.z0>>
           /\ _X_values' = g.X
           /\ _Y_values' = g.Y
           /\ _return_X_values' = g.return_X
           /\ xy_template_image' = xy_template_after_init(xy_template_image,
                                                          _caller_tag, g.image)
    /\ _xy_scan_line_count' = 0
    /\ last' = Quiet("_initialize_xy_refocus_image")
    /\ UNCHANGED <<config_vars, clock_vars, z_line_center, _zimage_Z_values,
                   z_template_data, steps_run, disturbed, responses, captured,
                   optimization_sequence, module_state, stopRequested,
                   _caller_tag, _initial_pos_x, _initial_pos_y, _initial_pos_z,
                   optim_pos_x, optim_pos_y, optim_pos_z,
                   optim_sigma_x, optim_sigma_y, optim_sigma_z,
                   _optimization_step, queue,
                   scanner_held, clock_up, runs_left, stops_left,
                   requested, configured_sequence, run_acquired, xy_scan_failed, z_scan_failed,
                   in_step, stop_in_step, run_finished, close_calls,
                   finished_events>>

InitializeZRefocusImage ==
    /\ grid_input # <<>>
    /\ LET g == _initialize_z_refocus_image(grid_input.z0, grid_input.size,
                                            grid_input.res, grid_input.range)
       IN  /\ z_line_center' = grid_input.z0
           /\ _zimage_Z_values' = g.Z
           /\ z_template_data' = z_template_after_init(z_template_data,
                                                       _caller_tag, g.template)
    /\ _xy_scan_line_count' = 0
    /\ last' = Quiet("_initialize_z_refocus_image")
    /\ UNCHANGED <<config_vars, clock_vars, xy_image_center, _X_values,
                   _Y_values, _return_X_values,
                   xy_template_image, steps_run, disturbed, responses, captured,
                   optimization_sequence, module_state, stopRequested,
                   _caller_tag, _initial_pos_x, _initial_pos_y, _initial_pos_z,
                   optim_pos_x, optim_pos_y, optim_pos_z,
                   optim_sigma_x, optim_sigma_y, optim_sigma_z,
                   _optimization_step, queue,
                   scanner_held, clock_up, runs_left, stops_left,
                   requested, configured_sequence, run_acquired, xy_scan_failed, z_scan_failed,
                   in_step, stop_in_step, run_finished, close_calls,
                   finished_events>>

(***************************************************************************)
(* The specification.                                                      *)
(***************************************************************************)
StartRefocus ==
    \E pos \in StartPositions, tag \in CallerTags,
       clock_status \in {0, -1}, scanner_status \in {0, -1} :
        start_refocus(pos, tag, clock_status, scanner_status)

StopRefocus == stop_refocus

RefocusXyLine ==
    \E outcome \in XYOutcomes, counts \in Counts, close_raises \in BOOLEAN,
       clock_raises \in BOOLEAN, unlock_raises \in BOOLEAN,
       race \in RaceChoices :
        _refocus_xy_line(outcome, counts, close_raises, clock_raises,
                         unlock_raises, race)

SetOptimizedXyFromFit ==
    \E r \in XYFitResults, race \in RaceChoices :
        _set_optimized_xy_from_fit(r, race)

DoZOptimization ==
    \E outcome \in ZOutcomes, counts \in Counts, bg_counts \in Counts,
       r \in ZFitResults, race \in RaceChoices :
        do_z_optimization(outcome, counts, bg_counts, r, race)

DoNextOptimizationStep ==
    \E close_raises \in BOOLEAN, clock_raises \in BOOLEAN,
       unlock_raises \in BOOLEAN, race \in RaceChoices :
        _do_next_optimization_step(close_raises, clock_raises, unlock_raises, race)

Next ==
    \/ StartRefocus
    \/ StopRefocus
    \/ RefocusXyLine
    \/ SetOptimizedXyFromFit
    \/ DoZOptimization
    \/ DoNextOptimizationStep

Spec == Init /\ [][Next]_vars

(***************************************************************************)
(* A session with a healthy device and no stop request: SessionRuns runs   *)
(* one after the other, and set_clock_frequency at any moment.             *)
(***************************************************************************)
InitSession ==
    /\ InitProgram
    /\ runs_left = SessionRuns
    /\ stops_left = 0
    /\ clock_calls_left = MaxClockCalls
    /\ faults_allowed = FALSE
    /\ grid_input = <<>>
    /\ finish_bounded = TRUE

SetClockFrequency ==
    \E clock_frequency \in ClockFrequencies,
       template_clock_frequency \in TemplateClockFrequencies :
        set_clock_frequency(clock_frequency, template_clock_frequency)

NextSession ==
    \/ StartRefocus
    \/ SetClockFrequency
    \/ RefocusXyLine
    \/ SetOptimizedXyFromFit
    \/ DoZOptimization
    \/ DoNextOptimizationStep

SpecSession == InitSession /\ [][NextSession]_vars

(***************************************************************************)
(* The event loop left to itself: one run with a device that may fail at   *)
(* every scan_line call, no stop request, and no bound on the executions   *)
(* of finish_refocus.  The Qt event loop handles every queued signal, which *)
(* is the weak fairness of the handlers.  The fit type is 'normal': in a   *)
(* template mode every finish_refocus moves the positions by the template  *)
(* cursor and the states do not repeat.                                    *)
(***************************************************************************)
InitEventLoop ==
    /\ InitProgram
    /\ fit_type = "normal"
    /\ runs_left = MaxRuns
    /\ stops_left = 0
    /\ clock_calls_left = 0
    /\ faults_allowed = TRUE
    /\ grid_input = <<>>
    /\ finish_bounded = FALSE

NextEventLoop ==
    \/ StartRefocus
    \/ RefocusXyLine
    \/ SetOptimizedXyFromFit
    \/ DoZOptimization
    \/ DoNextOptimizationStep

SpecEventLoop ==
    /\ InitEventLoop
    /\ [][NextEventLoop]_vars
    /\ WF_vars(RefocusXyLine)
    /\ WF_vars(SetOptimizedXyFromFit)
    /\ WF_vars(DoZOptimization)
    /\ WF_vars(DoNextOptimizationStep)

(***************************************************************************)
(* The grids on their own: _initialize_xy_refocus_image and                *)
(* _initialize_z_refocus_image for any window.                             *)
(***************************************************************************)
\* the windows: centre inside and outside the range, scan size, resolution
GridInputs ==
    [x0 : -3 .. 6, y0 : {-3, 1, 6}, z0 : {-3, 1, 6}, size : {0, 2, 4, 8},
     res : 1 .. 3, range : {<<0, 3>>, <<-2, 2>>}]

InitGrid ==
    /\ InitProgram
    /\ runs_left = 0
    /\ stops_left = 0
    /\ clock_calls_left = 0
    /\ faults_allowed = FALSE
    /\ finish_bounded = TRUE
    /\ grid_input \in GridInputs

NextGrid ==
    \/ InitializeXyRefocusImage
    \/ InitializeZRefocusImage

SpecGrid == InitGrid /\ [][NextGrid]_vars

(***************************************************************************)
(* Vocabulary of the claims.                                               *)
(***************************************************************************)
XyFitDone == last.op = "_set_optimized_xy_from_fit" /\ last.fit # "none"

ZFitDone == last.op = "do_z_optimization" /\ last.fit # "none"

RequestInsideRange ==
    /\ requested # <<>>
    /\ InRange(requested[1], x_range)
    /\ InRange(requested[2], y_range)
    /\ InRange(requested[3], z_range)

AcquisitionFailed ==
    last.op = "start_refocus" /\ last.acquire \in {"clock_failed", "scanner_failed"}

\* the first three coordinates a finished-event carries
ReportedPosition == SubSeq(last.finished[2], 1, 3)

\* the last signal of the queue is the one for the next optimization step
NextStepSignalled ==
    queue # <<>> /\ queue[Len(queue)] = "DoNextOptimizationStep"

Clip(v, range) == IF v < range[1] THEN range[1]
                  ELSE IF v > range[2] THEN range[2] ELSE v

(***************************************************************************)
(* C1.  With the requested start inside the physical range on all three    *)
(* axes and a zero template cursor, the best estimate lies inside the      *)
(* range on every axis after every XY or Z step, whatever the fit reports. *)
(* The code breaks it in the Z step: lines 687-689 move up by half the     *)
(* scan size where the lower edge is meant.                                *)
(***************************************************************************)
C1_EstimateInsideRange ==
    (RequestInsideRange /\ template_cursor = <<0, 0, 0, 0>>
        /\ (XyFitDone \/ ZFitDone))
    => /\ InRange(optim_pos_x, x_range)
       /\ InRange(optim_pos_y, y_range)
       /\ InRange(optim_pos_z, z_range)

(***************************************************************************)
(* C2.  After a scan_line call of an XY step returned the error sentinel,  *)
(* no handler issues a scan_line call for this run any more.               *)
(***************************************************************************)
C2_NoScanAfterXyFailure ==
    [][(xy_scan_failed /\ requested' = requested /\ runs_left' = runs_left)
        => last'.scans = 0]_vars

(***************************************************************************)
(* C3.  In a run that acquired the device, close_scanner is called exactly *)
(* once before the module is idle again: never twice, and not zero times   *)
(* once the module is idle after the run.                                  *)
(***************************************************************************)
C3_ReleasedExactlyOnce ==
    run_acquired
    => /\ close_calls <= 1
       /\ (module_state = "idle" => close_calls = 1)

(***************************************************************************)
(* C4.  Once stop_refocus was requested during an XY or a Z step of a run, *)
(* the next _refocus_xy_line runs finish_refocus, and after it no handler  *)
(* scans a line or starts a step of the sequence for this run.             *)
(***************************************************************************)
C4_StopUnwinds ==
    [][(stop_in_step /\ requested' = requested /\ runs_left' = runs_left)
        => /\ (~run_finished /\ last'.op = "_refocus_xy_line") => run_finished'
           /\ run_finished => (last'.scans = 0 /\ last'.step = "")]_vars

(***************************************************************************)
(* C5.  When a run is aborted by a line-scan failure, the finished-event   *)
(* carries the position requested at start_refocus.                        *)
(***************************************************************************)
C5_FailureReportsRequest ==
    ((xy_scan_failed \/ z_scan_failed) /\ last.finished # <<>>)
    => ReportedPosition = requested

(***************************************************************************)
(* C6.  When the device acquisition fails in start_refocus, the            *)
(* finished-event carries the position the caller requested, in every fit  *)
(* mode.                                                                   *)
(***************************************************************************)
C6_AcquisitionFailureReportsRequest ==
    AcquisitionFailed => ReportedPosition = requested

(***************************************************************************)
(* C7.  When the device acquisition fails, start_refocus ends the run      *)
(* before any scanning: no run-started event, no step signal queued, no    *)
(* scan_line call, the module state idle again, and the clock closed when  *)
(* it had been set up before the scanner setup failed.                     *)
(***************************************************************************)
C7_AcquisitionFailureAborts ==
    [][(last'.op = "start_refocus" /\ last'.acquire # "ok")
        => /\ ~last'.started
           /\ queue' = queue
           /\ last'.scans = 0
           /\ module_state' = "idle"
           /\ ~scanner_held'
           /\ last'.finished # <<>>
           /\ (last'.acquire = "scanner_failed"
                 => last'.clock_closes = 1 /\ ~clock_up')]_vars

C7_Witness ==
    /\ AcquisitionFailed
    /\ last.acquire = "scanner_failed"
    /\ module_state = "idle"
    /\ ~clock_up

C9_WithinMaxOffset ==
    (XyFitDone /\ ~run_finished)
    => /\ Abs(optim_pos_x - _initial_pos_x) < max_offset
       /\ Abs(optim_pos_y - _initial_pos_y) < max_offset

C11_ValidationIsFunctionOfInputs ==
    [][/\ (last'.op = "_set_optimized_xy_from_fit" /\ last'.fit # "none"
             /\ optim_pos_x = _initial_pos_x /\ optim_pos_y = _initial_pos_y)
          => <<optim_pos_x', optim_pos_y', optim_sigma_x', optim_sigma_y'>>
               \in {xy_from_fit(r, _initial_pos_x, _initial_pos_y,
                                <<_initial_pos_x, _initial_pos_y, 0, 0>>) :
                      r \in {q \in XYFitResults :
                               xy_candidate(q, _initial_pos_x, _initial_pos_y)
                                 = last'.candidate}}
       /\ (last'.op = "do_z_optimization" /\ last'.fit # "none"
             /\ optim_pos_z = _initial_pos_z)
          => <<optim_pos_z', optim_sigma_z'>>
               \in {z_from_fit(r, _initial_pos_z, <<_initial_pos_z, 0>>) :
                      r \in {q \in ZFitResults :
                               z_candidate(q, _initial_pos_z)
                                 = last'.candidate}}]_vars

\* the run that is under way or was finished last acquires the XY template
\* and nothing failed and no stop was requested since activation
XyCaptureUndisturbed == _caller_tag = "xy_template_image" /\ ~disturbed

\* the handler that ran last was finish_refocus and emitted the event
FinishedEventEmitted == last.closes = 1 /\ last.finished # <<>>

(***************************************************************************)
(* C12.  A run with caller_tag 'xy_template_image', nothing failing and    *)
(* no stop: every line handler copies the counts of its forward line       *)
(* unchanged into the row of the stored template and leaves the other      *)
(* rows alone, no other handler touches the counts once the step is        *)
(* launched, no handler invokes a fit, and the run ends after exactly one  *)
(* XY step, whatever the configured sequence, with the requested position  *)
(* in the finished-event.                                                  *)
(***************************************************************************)
C12_XyTemplateCapture ==
    [][(XyCaptureUndisturbed' /\ last'.op # "start_refocus"
          /\ last'.op # "set_clock_frequency")
        => /\ last'.fit = "none"
           /\ last'.op = "_refocus_xy_line"
                => /\ last'.counts # <<>>
                   /\ xy_template_image' =
                        [xy_template_image EXCEPT
                           !.counts[_xy_scan_line_count + 1] = last'.counts[1]]
           /\ last'.op = "_set_optimized_xy_from_fit"
                => xy_template_image' = xy_template_image
           /\ last'.op = "_do_next_optimization_step"
                => /\ last'.step \in {"XY", ""}
                   /\ xy_template_image'.counts
                        = IF last'.step = "XY"
                          THEN [i \in 1 .. optimizer_XY_res |-> 0]
                          ELSE xy_template_image.counts
           /\ FinishedEventEmitted'
                => /\ steps_run' = <<"XY">>
                   /\ ReportedPosition' = requested'
                   /\ \A i \in 1 .. optimizer_XY_res :
                         xy_template_image'.counts[i] \in Counts]_vars

C12_Witness ==
    /\ XyCaptureUndisturbed
    /\ FinishedEventEmitted
    /\ runs_left = 0
    /\ optimization_sequence = <<"Z", "XY", "Z">>
    /\ steps_run = <<"XY">>
    /\ xy_template_image.counts[1] = 2
    /\ xy_template_image.counts[optimizer_XY_res] = 1
    /\ ReportedPosition = requested

\* the XY template a capture from the requested position with the responses
\* of this run amounts to: the grid of the window around the position the
\* run starts from, at its z, and one response in every row
ExpectedXyTemplate ==
    LET ini == initial_from_request(requested)
        g == _initialize_xy_refocus_image(ini[1], ini[2], ini[3],
                                          refocus_XY_size, optimizer_XY_res,
                                          x_range, y_range)
    IN  [g.image EXCEPT !.counts = responses]

\* the Z template such a capture amounts to: the Z values relative to the
\* centre, and the line (less the background line with surface subtraction)
ExpectedZTemplate ==
    LET ini == initial_from_request(requested)
        g == _initialize_z_refocus_image(ini[3], refocus_Z_size,
                                         optimizer_Z_res, z_range)
    IN  [Z_values |-> g.template.Z_values,
         data |-> IF do_surface_subtraction
                  THEN responses[1] - responses[2]
                  ELSE responses[1]]

\* the run acquires a template, and nothing failed and no stop was requested
CaptureUndisturbed ==
    _caller_tag \in {"xy_template_image", "z_template_image"} /\ ~disturbed

\* the template acquisition that finished before had the inputs of this one
SameCaptureBefore ==
    /\ captured # <<>>
    /\ captured.tag = _caller_tag
    /\ captured.requested = requested
    /\ captured.responses = responses

(***************************************************************************)
(* C13.  Template capture is idempotent.  When a capture run finishes, the *)
(* stored template is the one its start position, the configuration and    *)
(* the responses of the device in this run amount to, and so it is         *)
(* identical to the template the capture before left when that one had     *)
(* the same start position and responses.                                  *)
(***************************************************************************)
C13_CaptureIdempotent ==
    [][(FinishedEventEmitted' /\ CaptureUndisturbed')
        => /\ _caller_tag = "xy_template_image"
                => /\ xy_template_image' = ExpectedXyTemplate
                   /\ SameCaptureBefore
                        => xy_template_image' = captured.xy_template_image
           /\ _caller_tag = "z_template_image"
                => /\ z_template_data' = ExpectedZTemplate
                   /\ SameCaptureBefore
                        => z_template_data' = captured.z_template_data]_vars

\* a second XY capture with the inputs of the first is about to finish
C13_Witness ==
    /\ CaptureUndisturbed
    /\ _caller_tag = "xy_template_image"
    /\ runs_left = 0
    /\ SameCaptureBefore
    /\ Len(responses) = optimizer_XY_res
    /\ responses[1] = 2
    /\ requested = <<3, 3, 2>>
    /\ xy_template_image = captured.xy_template_image
    /\ queue = <<"DoNextOptimizationStep">>
    /\ _optimization_step = 1

\* a sequence holds an element other than 'XY' and 'Z'
HasUnknownStep(seq) == \E i \in 1 .. Len(seq) : seq[i] \notin {"XY", "Z"}

\* start_refocus replaces a sequence with an unknown step by the default
\* and leaves every other sequence as it is
SequenceValidatedAtStart ==
    last'.op = "start_refocus"
    => optimization_sequence' = IF HasUnknownStep(optimization_sequence)
                                THEN <<"XY", "Z">>
                                ELSE optimization_sequence

\* a run that nothing disturbed has finished, and the sequence configured
\* when it was started held an unknown step
FinishedAfterUnknownStep ==
    FinishedEventEmitted /\ ~disturbed /\ HasUnknownStep(configured_sequence)

(***************************************************************************)
(* C14, as the spec states it.  start_refocus replaces a sequence with an  *)
(* element other than 'XY' and 'Z' by ['XY', 'Z'] and leaves any other     *)
(* sequence unchanged, and the run started with the replaced sequence      *)
(* executes exactly an XY step followed by a Z step.                       *)
(***************************************************************************)
C14_UnknownStepRunsXYZ ==
    [][/\ SequenceValidatedAtStart
       /\ FinishedAfterUnknownStep' => steps_run' = <<"XY", "Z">>]_vars

(***************************************************************************)
(* C14, amended.  The replacement is as stated; the run executes exactly   *)
(* an XY step followed by a Z step unless it acquires a template: with     *)
(* caller_tag 'xy_template_image' it executes one XY step, with            *)
(* 'z_template_image' one Z step.                                          *)
(***************************************************************************)
C14_UnknownStepReplaced ==
    [][/\ SequenceValidatedAtStart
       /\ FinishedAfterUnknownStep'
            => steps_run' = IF _caller_tag = "xy_template_image" THEN <<"XY">>
                            ELSE IF _caller_tag = "z_template_image" THEN <<"Z">>
                            ELSE <<"XY", "Z">>]_vars

C14_Witness ==
    /\ FinishedAfterUnknownStep
    /\ _caller_tag = "unknown"
    /\ configured_sequence = <<"XY", "bad">>
    /\ optimization_sequence = <<"XY", "Z">>
    /\ steps_run = <<"XY", "Z">>

\* every point of a grid of n points lies inside the range
GridInside(grid, range, n) ==
    \A i \in 1 .. Len(grid) :
        range[1] * Scale(n) <= grid[i] /\ grid[i] <= range[2] * Scale(n)

Reverse(s) == [i \in 1 .. Len(s) |-> s[Len(s) + 1 - i]]

XyGridBuilt == last.op = "_initialize_xy_refocus_image"

ZLineBuilt == last.op = "_initialize_z_refocus_image"

\* every coordinate of the grid and of the line built for grid_input lies
\* inside the range
GridsInsideRange ==
    /\ XyGridBuilt
         => /\ GridInside(_X_values, grid_input.range, grid_input.res)
            /\ GridInside(_return_X_values, grid_input.range, grid_input.res)
            /\ GridInside(_Y_values, grid_input.range, grid_input.res)
            /\ Len(_X_values) = grid_input.res
            /\ Len(_Y_values) = grid_input.res
    /\ ZLineBuilt
         => /\ GridInside(_zimage_Z_values, grid_input.range, grid_input.res)
            /\ Len(_zimage_Z_values) = grid_input.res

(***************************************************************************)
(* C15, as the spec states it.  For every centre, scan size and            *)
(* resolution the coordinates of the XY grid and of the Z line lie inside  *)
(* the range, and the return X sweep is the reverse of the forward X       *)
(* sweep.                                                                  *)
(***************************************************************************)
C15_GridInsideAndReturnReversed ==
    /\ GridsInsideRange
    /\ XyGridBuilt => _return_X_values = Reverse(_X_values)

(***************************************************************************)
(* C15, amended.  The coordinates lie inside the range for every centre,   *)
(* scan size and resolution; the return X sweep is the reverse of the      *)
(* forward X sweep for a resolution of 2 or more, and with resolution 1    *)
(* the forward sweep is the lower edge of the window and the return sweep  *)
(* its upper edge.                                                         *)
(***************************************************************************)
C15_GridInsideRange ==
    /\ GridsInsideRange
    /\ (XyGridBuilt /\ grid_input.res >= 2)
         => _return_X_values = Reverse(_X_values)
    /\ (XyGridBuilt /\ grid_input.res = 1)
         => /\ _X_values
                 = <<np_clip(grid_input.x0 - (grid_input.size \div 2),
                             grid_input.range)>>
            /\ _return_X_values
                 = <<np_clip(grid_input.x0 + (grid_input.size \div 2),
                             grid_input.range)>>

\* a window that reaches over the upper end of the range, three points
C15_Witness ==
    /\ XyGridBuilt
    /\ grid_input.range = <<0, 3>>
    /\ grid_input.x0 = 3
    /\ grid_input.size = 4
    /\ grid_input.res = 3
    /\ _X_values = <<2, 4, 6>>
    /\ _return_X_values = <<6, 4, 2>>

\* the grid of n points of the window of the given size around c, cut at
\* the ends of the range
WindowAround(c, size, range, n) ==
    LET lo == Clip(c - (size \div 2), range)
        hi == Clip(c + (size \div 2), range)
    IN  [i \in 1 .. n |-> lo * Scale(n) + (i - 1) * (hi - lo)]

StepLaunched(step) ==
    last.op = "_do_next_optimization_step" /\ last.step = step

(***************************************************************************)
(* C16.  A step is built around the best estimate held when it begins:     *)
(* the XY step launched takes the plane at optim_pos_z and the window      *)
(* around (optim_pos_x, optim_pos_y), the Z step launched the window       *)
(* around optim_pos_z, and the Z line is scanned at the lateral position   *)
(* (optim_pos_x, optim_pos_y) the steps before left.                       *)
(***************************************************************************)
C16_StepsAroundCurrentEstimate ==
    [][/\ StepLaunched("XY")'
            => /\ xy_image_center' = <<optim_pos_x, optim_pos_y, optim_pos_z>>
               /\ xy_image_center' = <<optim_pos_x', optim_pos_y', optim_pos_z'>>
               /\ _X_values' = WindowAround(optim_pos_x, refocus_XY_size,
                                            x_range, optimizer_XY_res)
               /\ _Y_values' = WindowAround(optim_pos_y, refocus_XY_size,
                                            y_range, optimizer_XY_res)
       /\ StepLaunched("Z")'
            => /\ z_line_center' = optim_pos_z
               /\ z_line_center' = optim_pos_z'
               /\ _zimage_Z_values' = WindowAround(optim_pos_z, refocus_Z_size,
                                                   z_range, optimizer_Z_res)
       /\ last'.op = "do_z_optimization"
            => /\ last'.z_center = <<optim_pos_x, optim_pos_y>>
               /\ last'.z_center = <<optim_pos_x', optim_pos_y'>>]_vars

\* the third step of ['Z', 'XY', 'Z'] is launched around what the two steps
\* before it left, which is not where the run started
C16_Witness ==
    /\ StepLaunched("Z")
    /\ ~disturbed
    /\ _optimization_step = 3
    /\ steps_run = <<"Z", "XY", "Z">>
    /\ z_line_center = optim_pos_z
    /\ optim_pos_z # _initial_pos_z
    /\ optim_pos_x # _initial_pos_x
    /\ xy_image_center = <<_initial_pos_x, _initial_pos_y, optim_pos_z>>

\* the sequence the run was started with, as check_optimization_sequence
\* leaves it
ValidatedSequence ==
    IF HasUnknownStep(configured_sequence) THEN <<"XY", "Z">>
    ELSE configured_sequence

\* the steps of a run: the validated sequence, or the one scan of a run
\* that acquires a template
StepsOfRun ==
    IF _caller_tag = "xy_template_image" THEN <<"XY">>
    ELSE IF _caller_tag = "z_template_image" THEN <<"Z">>
    ELSE ValidatedSequence

IsPrefix(s, t) == Len(s) <= Len(t) /\ s = SubSeq(t, 1, Len(s))

\* what the handlers of a run without failure and stop do, apart from the
\* choice of the steps: one step at a time, an XY step of `resolution` lines
\* (the move to the start, the line and its return at line 0, the line and
\* its return after it), the device released and the finished-event emitted
\* by the handler that finds no step left
CleanRunHandlers ==
    /\ Len(queue') <= 1
    /\ \A s \in {"XY", "Z"} :
          StepLaunched(s)'
            => /\ in_step = ""
               /\ queue = <<"DoNextOptimizationStep">>
               /\ steps_run' = Append(steps_run, s)
               /\ _optimization_step' = Len(steps_run')
    /\ last'.op = "_refocus_xy_line"
          => /\ in_step = "XY"
             /\ _xy_scan_line_count < optimizer_XY_res
             /\ _xy_scan_line_count' = _xy_scan_line_count + 1
             /\ last'.scans = IF _xy_scan_line_count = 0 THEN 3 ELSE 2
             /\ queue' = IF _xy_scan_line_count' = optimizer_XY_res
                         THEN <<"CompletedXyOptimizerScan">>
                         ELSE <<"ScanNextXyLine">>
    /\ last'.op = "_set_optimized_xy_from_fit"
          => /\ _xy_scan_line_count = optimizer_XY_res
             /\ queue' = <<"DoNextOptimizationStep">>
    /\ last'.op = "do_z_optimization"
          => /\ in_step = "Z"
             /\ queue' = <<"DoNextOptimizationStep">>
    /\ last'.closes = 1
          => /\ last'.op = "_do_next_optimization_step"
             /\ in_step = ""
             /\ module_state' = "idle"
             /\ ~scanner_held' /\ ~clock_up'
             /\ queue' = <<>>
             /\ last'.finished =
                  <<_caller_tag,
                    truncated(<<optim_pos_x', optim_pos_y', optim_pos_z', 0>>,
                              scanner_axes)>>

(***************************************************************************)
(* C17 as stated.  In a run with no device failure and no stop request     *)
(* the steps of the validated sequence are executed one at a time in the   *)
(* configured order, each once (an XY step of `resolution` lines, each     *)
(* with its return, the move to the start once before line 0), and after   *)
(* the last step the device is released and the finished-event emitted.    *)
(* Violated: a run that acquires a template executes one scan, whatever    *)
(* the sequence.                                                           *)
(***************************************************************************)
C17_CleanRunExecutesValidatedSequence ==
    [][~disturbed'
         => /\ CleanRunHandlers
            /\ module_state' = "locked" => IsPrefix(steps_run', ValidatedSequence')
            /\ last'.closes = 1 => steps_run' = ValidatedSequence']_vars

(***************************************************************************)
(* C17, amended.  In a run with no device failure and no stop request the  *)
(* steps of the run are executed one at a time in order, each once, and    *)
(* after the last step the device is released and the finished-event       *)
(* emitted with (caller_tag, best estimate); the steps of the run are the  *)
(* validated sequence unless the caller tag is 'xy_template_image' or      *)
(* 'z_template_image', whose run is one XY or one Z step.                  *)
(***************************************************************************)
C17_CleanRunExecutesItsSteps ==
    [][~disturbed'
         => /\ CleanRunHandlers
            /\ module_state' = "locked" => IsPrefix(steps_run', StepsOfRun')
            /\ last'.closes = 1 => steps_run' = StepsOfRun']_vars

\* a run of ['Z', 'XY', 'Z'] without failure and stop has finished
C17_Witness ==
    /\ ~disturbed
    /\ last.op = "_do_next_optimization_step"
    /\ last.closes = 1
    /\ FinishedEventEmitted
    /\ module_state = "idle"
    /\ _caller_tag = "unknown"
    /\ steps_run = <<"Z", "XY", "Z">>
    /\ configured_sequence = <<"Z", "XY", "Z">>

\* the steps of the run left the estimate where the run began
EstimateUnchanged ==
    <<optim_pos_x, optim_pos_y, optim_pos_z>>
        = <<_initial_pos_x, _initial_pos_y, _initial_pos_z>>

(***************************************************************************)
(* C18.  In a template fit mode the template cursor subtracted from the    *)
(* requested position at start_refocus is added back exactly once when     *)
(* the run is reported: every finished-event of a run whose steps left the *)
(* estimate unchanged carries the requested position, on every             *)
(* termination path.                                                       *)
(***************************************************************************)
C18_CursorAddedBackOnce ==
    (/\ last.finished # <<>>
     /\ xy_template_mode \/ z_template_mode
     /\ EstimateUnchanged)
        => ReportedPosition = requested

(***************************************************************************)
(* C19.  Every run that reaches Finishing returns the sequencer to Idle:   *)
(* after finish_refocus the module state is unlocked, whether or not       *)
(* close_scanner and close_scanner_clock succeeded.                        *)
(***************************************************************************)
C19_FinishingReturnsToIdle ==
    [][last'.closes = 1 => module_state' = "idle"]_vars

\* n is the frequency v (in tenths, not negative) as an integer
IntegerOf(v, n) == v >= 0 /\ n * 10 <= v /\ v < (n + 1) * 10

(***************************************************************************)
(* C20.  set_clock_frequency called while the module state is locked       *)
(* returns -1, leaves the clock frequency and the template clock frequency *)
(* unchanged and emits no sigClockFrequencyChanged; called while idle it   *)
(* returns 0, stores the new frequency as an integer (the template         *)
(* frequency only when one is given) and emits sigClockFrequencyChanged    *)
(* with the stored value.                                                  *)
(***************************************************************************)
C20_SetClockFrequency ==
    [][last'.op = "set_clock_frequency"
         => LET clock_frequency == last'.clock_args[1]
                template_clock_frequency == last'.clock_args[2]
            IN  IF module_state = "locked"
                THEN /\ last'.returned = -1
                     /\ _clock_frequency' = _clock_frequency
                     /\ _template_clock_frequency' = _template_clock_frequency
                     /\ last'.clock_changed = <<>>
                ELSE /\ last'.returned = 0
                     /\ IntegerOf(clock_frequency, _clock_frequency')
                     /\ IF template_clock_frequency = <<>>
                        THEN _template_clock_frequency'
                                = _template_clock_frequency
                        ELSE IntegerOf(template_clock_frequency[1],
                                       _template_clock_frequency')
                     /\ last'.clock_changed = <<_clock_frequency'>>
                     /\ module_state' = "idle"]_vars

\* set_clock_frequency(100.7, 70.5) was refused during the XY step of a run
C20_Witness ==
    /\ last.op = "set_clock_frequency"
    /\ last.clock_args = <<1007, <<705>> >>
    /\ last.returned = -1
    /\ module_state = "locked"
    /\ in_step = "XY"
    /\ _clock_frequency = 50
    /\ _template_clock_frequency = 50
    /\ last.clock_changed = <<>>

(***************************************************************************)
(* C21.  When a scan_line call of a Z step (the move to the start, the     *)
(* line or the background line) returns the error sentinel, the Z step     *)
(* invokes no fit, leaves optim_pos_z and optim_sigma_z unchanged and does *)
(* not signal the next optimization step.                                  *)
(***************************************************************************)
C21_ZScanFailureSkipsFit ==
    [][(last'.op = "do_z_optimization" /\ last'.scan_error)
         => /\ last'.fit = "none"
            /\ optim_pos_z' = optim_pos_z
            /\ optim_sigma_z' = optim_sigma_z
            /\ \A i \in 1 .. Len(queue') :
                  queue'[i] = "DoNextOptimizationStep"
                    => i < Len(queue) /\ queue[i + 1] = queue'[i]]_vars

\* the Z candidate of the last handler was not accepted although the fit
\* succeeded
ZCandidateRejected ==
    /\ last.op = "do_z_optimization"
    /\ last.candidate \in {"too_far", "out_of_range_above", "out_of_range_below"}

Min(a, b) == IF a < b THEN a ELSE b

Max(a, b) == IF a > b THEN a ELSE b

(***************************************************************************)
(* C22.  In a Z step whose fit succeeded and whose candidate is rejected   *)
(* the new estimate is on the side of the candidate: above the starting z  *)
(* it is start + half the Z scan size, or z_range max when that is beyond  *)
(* the range; at or below the starting z it is start - half the Z scan     *)
(* size, or z_range min when that is below the range, and never above the  *)
(* starting z.                                                             *)
(***************************************************************************)
C22_ZEdgeSeeking ==
    [][ZCandidateRejected'
         => IF last'.fit_center[1] > _initial_pos_z
            THEN optim_pos_z' = Min(_initial_pos_z + (refocus_Z_size \div 2),
                                    z_range[2])
            ELSE /\ optim_pos_z' = Max(_initial_pos_z - (refocus_Z_size \div 2),
                                       z_range[1])
                 /\ optim_pos_z' <= _initial_pos_z]_vars

(***************************************************************************)
(* C23.  Whenever the candidate of a step is not accepted (fit not         *)
(* successful, shift not within the maximum offset, candidate outside the  *)
(* physical range), the uncertainty of the axes of the step is 0 after the *)
(* step: sigma_x and sigma_y after an XY step, sigma_z after a Z step.     *)
(***************************************************************************)
C23_RejectedCandidateZeroSigma ==
    /\ (last.op = "_set_optimized_xy_from_fit"
        /\ last.candidate \notin {"none", "acceptable"})
          => (optim_sigma_x = 0 /\ optim_sigma_y = 0)
    /\ (last.op = "do_z_optimization"
        /\ last.candidate \notin {"none", "acceptable"})
          => optim_sigma_z = 0

(***************************************************************************)
(* C24.  With surface subtraction an error sentinel anywhere in the        *)
(* background Z line aborts the run as a sentinel in the primary line      *)
(* does: _scan_z_line stops the run (stop requested, the signal of         *)
(* stop_refocus queued) and the line data are not replaced by the          *)
(* difference.                                                             *)
(***************************************************************************)
C24_BackgroundSentinelAborts ==
    [][(/\ last'.op = "do_z_optimization"
        /\ do_surface_subtraction
        /\ last'.sentinel
        /\ last'.scans = 4)
         => /\ last'.scan_error
            /\ stopRequested'
            /\ Len(last'.counts) < 2
            /\ \E i \in 1 .. Len(queue') : queue'[i] = "ScanNextXyLine"]_vars

\* the run is not one that acquires a template
OrdinaryRun == _caller_tag \notin {"xy_template_image", "z_template_image"}

XyTemplateCaptured == captured # <<>> /\ captured.tag = "xy_template_image"

ZTemplateCaptured == captured # <<>> /\ captured.tag = "z_template_image"

C26_PositionHasAxisCount ==
    last.finished # <<>> => Len(last.finished[2]) = scanner_axes

(***************************************************************************)
(* C27.  Each call of start_refocus leads to exactly one finished-event:   *)
(* never two, and not zero once the run is over (the module idle and no    *)
(* signal queued), whatever the device failures, the fit results and the   *)
(* stop requests.                                                          *)
(***************************************************************************)
C27_ExactlyOneFinishedEvent ==
    requested # <<>>
        => /\ finished_events <= 1
           /\ (module_state = "idle" /\ queue = <<>>) => finished_events = 1

(***************************************************************************)
(* C28.  scan_line is called only while the run holds the scanning device: *)
(* after set_up_scanner succeeded and before close_scanner was called.     *)
(* No handler scans after the device was released.                         *)
(***************************************************************************)
C28_ScanOnlyWhileHeld ==
    [][last'.scans > 0 => scanner_held]_vars

(***************************************************************************)
(* C29.  A stop_refocus request made while no run is in flight has no      *)
(* effect: as long as no run was started, the device is not released       *)
(* (close_scanner is not called) and no finished-event is emitted.         *)
(***************************************************************************)
C29_IdleStopHasNoEffect ==
    requested = <<>> => (close_calls = 0 /\ finished_events = 0)

(***************************************************************************)
(* C30.  Whenever _refocus_xy_line reads a row of the XY grid (it did not  *)
(* take the stop branch), the line counter _xy_scan_line_count is in       *)
(* 0 .. resolution - 1, so that the row exists and no read fails.          *)
(***************************************************************************)
C30_LineCounterInsideGrid ==
    [][(last'.op = "_refocus_xy_line" /\ last'.closes = 0)
         => /\ _xy_scan_line_count \in 0 .. optimizer_XY_res - 1
            /\ ~last'.exception]_vars

(***************************************************************************)
(* C31.  After a line-scan failure the sequencer becomes quiescent: the    *)
(* queue of self-signals is empty at some moment after the failure, even   *)
(* when the device returns the error sentinel for every later scan_line    *)
(* call.                                                                   *)
(***************************************************************************)
C31_QuiescentAfterFailure ==
    (xy_scan_failed \/ z_scan_failed) ~> (queue = <<>>)

====
